---- MODULE Spec2Model ----
(***************************************************************************)
(* Job Search API (FastAPI + OpenSearch).                                  *)
(*                                                                         *)
(* Five specifications over one set of variables:                          *)
(*   SpecQuery  - build_search_query applied to bounded argument sets      *)
(*   SpecMapper - opensearch_hit_to_job_result_item applied to bounded     *)
(*                raw documents                                            *)
(*   Spec       - the GET /jobs handler search_jobs: request, the single   *)
(*                search sent to the engine, the engine's reply, the       *)
(*                response                                                 *)
(*   SpecApp    - the application of src/app/main.py: the lifespan of each *)
(*                worker process, the requests it serves, the engine       *)
(*   SpecClient - one interpreter of SpecApp in which the application is   *)
(*                started and stopped repeatedly                           *)
(*                                                                         *)
(* Python values are encoded as follows.  An Optional[T] argument is a     *)
(* sequence: <<>> is None and <<x>> is the value x.  A stored JSON value   *)
(* of a document is a tagged record [t |-> tag, ...].                      *)
(***************************************************************************)
EXTENDS Integers, Sequences, FiniteSets, TLC

VARIABLES
    args,        \* SpecQuery: the arguments of build_search_query
    query_out,   \* SpecQuery: <<>> before the call, <<query>> after it
    hit,         \* SpecMapper: the raw hit handed to the mapper
    item_out,    \* SpecMapper: <<>> before the call, <<outcome>> after it
    settings,    \* Spec: Settings (default_page_size, max_page_size)
    pc,          \* Spec: position of the GET /jobs request
    request,     \* Spec: the validated query parameters of the request
    sent,        \* Spec: the search bodies sent to the engine, in order
    reply,       \* Spec: <<>> or <<what client.search returned or raised>>
    response,    \* Spec: <<>> or <<the HTTP response>>
    engine,      \* SpecApp: the search engine (reachable, jobs index, documents)
    proc,        \* SpecApp: each worker process (lifespan position, _client)
    http,        \* SpecApp: <<>> or <<the last request served and its response>>
    flips        \* SpecApp: how often the engine's reachability has changed

vars == <<args, query_out, hit, item_out, settings, pc, request, sent, reply, response,
          engine, proc, http, flips>>

----------------------------------------------------------------------------
(* Optional values *)

None == <<>>

Some(x) == <<x>>

IsNone(o) == o = <<>>

\* Python truthiness of an Optional[str]: None and "" are falsy
TruthyStr(o) == o # <<>> /\ o[1] # ""

\* Python truthiness of an Optional[List[str]]: None and [] are falsy
TruthyList(o) == o # <<>> /\ Len(o[1]) > 0

----------------------------------------------------------------------------
(* build_search_query, src/app/routers/search.py:37-157 *)

\* the weighted field list of the multi_match clause
MultiMatchFields ==
    <<"title^3", "description", "organisation^2", "location", "summary",
      "profession", "grade">>

MultiMatchClause(q) ==
    [op |-> "multi_match", query |-> q, fields |-> MultiMatchFields,
     type |-> "best_fields", fuzziness |-> "AUTO"]

TermClause(field, value) == [op |-> "term", field |-> field, value |-> value]

TermsClause(field, values) == [op |-> "terms", field |-> field, values |-> values]

\* {"range": {"salary.minimum": {gte?, lte?}}}: a bound that was not given is None
\* faulty variant: the bounds are swapped
RangeClauseSwapped(salary_min, salary_max) ==
    [op |-> "range", field |-> "salary.minimum", gte |-> salary_max, lte |-> salary_min]

RangeClause(salary_min, salary_max) ==
    [op |-> "range", field |-> "salary.minimum", gte |-> salary_min, lte |-> salary_max]

must_clauses(a) ==
    IF TruthyStr(a.q) THEN <<MultiMatchClause(a.q[1])>> ELSE <<>>

OrganisationClauses(a) ==
    IF TruthyStr(a.organisation)
    THEN <<TermClause("organisation.keyword", a.organisation[1])>> ELSE <<>>

\* faulty variant: an equality clause on the first value of the list
MultiSelectClausesFirst(field, values) ==
    IF TruthyList(values) THEN <<TermClause(field, values[1][1])>> ELSE <<>>

\* one multi-select filter: if values: filter_clauses.append({"terms": {field: values}})
MultiSelectClauses(field, values) ==
    IF TruthyList(values) THEN <<TermsClause(field, values[1])>> ELSE <<>>

\* Python truthiness of an Optional[float]: None and 0 are falsy
TruthyNum(o) == o # <<>> /\ o[1] # 0

\* faulty variant: "if salary_min or salary_max:" (truthiness instead of "is not None")
SalaryClausesTruthy(a) ==
    IF TruthyNum(a.salary_min) \/ TruthyNum(a.salary_max)
    THEN <<RangeClause(a.salary_min, a.salary_max)>> ELSE <<>>

\* if salary_min is not None or salary_max is not None: one range clause
SalaryClauses(a) ==
    IF ~IsNone(a.salary_min) \/ ~IsNone(a.salary_max)
    THEN <<RangeClause(a.salary_min, a.salary_max)>> ELSE <<>>

filter_clauses(a) ==
    OrganisationClauses(a)
    \o MultiSelectClauses("profession.keyword", a.professions)
    \o MultiSelectClauses("grade", a.grades)
    \o MultiSelectClauses("assignmentType", a.assignments)
    \o MultiSelectClauses("workingPattern", a.working_patterns)
    \o MultiSelectClauses("workLocation", a.work_locations)
    \o SalaryClauses(a)

MatchAll == [kind |-> "match_all", keys |-> {}, must |-> <<>>, filter |-> <<>>]

\* {"bool": {...}}: keys are the keys present in the bool dict
BoolQuery(must, filter) ==
    [kind |-> "bool",
     keys |-> (IF Len(must) > 0 THEN {"must"} ELSE {})
              \cup (IF Len(filter) > 0 THEN {"filter"} ELSE {}),
     must |-> must, filter |-> filter]

\* faulty variant: the filter clauses are appended to the scoring part
build_search_queryAllMust(a) ==
    IF Len(must_clauses(a)) > 0 \/ Len(filter_clauses(a)) > 0
    THEN BoolQuery(must_clauses(a) \o filter_clauses(a), <<>>)
    ELSE MatchAll

\* lines 144-157
build_search_query(a) ==
    IF Len(must_clauses(a)) > 0 \/ Len(filter_clauses(a)) > 0
    THEN BoolQuery(must_clauses(a), filter_clauses(a))
    ELSE MatchAll

----------------------------------------------------------------------------
(* Bounded arguments of build_search_query *)

MaxListLen == 2

\* distinct values per multi-select filter; a list argument is a prefix of these
FilterValues ==
    [professions |-> <<"Policy", "Digital", "Finance", "Legal">>,
     grades |-> <<"Grade 7", "Grade 6", "SEO", "HEO">>,
     assignments |-> <<"Permanent", "Loan", "Secondment", "Apprentice">>,
     working_patterns |-> <<"Full-time", "Part-time", "Job share", "Flexible">>,
     work_locations |-> <<"Office based", "Home based", "Hybrid", "Remote">>]

ListArgs(f) == {None} \cup {Some(SubSeq(FilterValues[f], 1, n)) : n \in 0..MaxListLen}

StrArgs(s) == {None, Some(""), Some(s)}

SalaryArgs == {None, Some(0), Some(30000)}

QueryArgs ==
    [q : StrArgs("policy"),
     organisation : StrArgs("HMRC"),
     professions : ListArgs("professions"),
     grades : ListArgs("grades"),
     assignments : ListArgs("assignments"),
     working_patterns : ListArgs("working_patterns"),
     work_locations : ListArgs("work_locations"),
     salary_min : SalaryArgs,
     salary_max : SalaryArgs]

NoArgs ==
    [q |-> None, organisation |-> None, professions |-> None, grades |-> None,
     assignments |-> None, working_patterns |-> None, work_locations |-> None,
     salary_min |-> None, salary_max |-> None]

----------------------------------------------------------------------------
(* Stored JSON values of a document *)

\* the key is absent from the dict
Missing == [t |-> "missing"]

Null == [t |-> "null"]

Str(s) == [t |-> "str", s |-> s]

Num(n) == [t |-> "num", n |-> n]

List(l) == [t |-> "list", l |-> l]

\* a stored location object; valid says whether FixedLocation(**loc) accepts it
LocDict(town_name, region, latitude, longitude, valid) ==
    [t |-> "dict", keys |-> {"town_name", "region", "latitude", "longitude"},
     town_name |-> town_name, region |-> region, latitude |-> latitude,
     longitude |-> longitude, valid |-> valid]

\* a stored salary object with the given keys; minimum is a stored value
SalaryDict(keys, minimum) ==
    [t |-> "dict", keys |-> keys, minimum |-> minimum, currency |-> "GBP",
     currency_symbol |-> "£"]

\* dict.get(key, default): the default only replaces an absent key, never a null
Get(v, default) == IF v.t = "missing" THEN default ELSE v

\* Python truthiness of a stored value
Truthy(v) ==
    CASE v.t = "null" -> FALSE
      [] v.t = "str" -> v.s # ""
      [] v.t = "num" -> v.n # 0
      [] v.t = "list" -> Len(v.l) > 0
      [] v.t = "dict" -> v.keys # {}
      [] OTHER -> FALSE

\* str(x)
StrOf(v) ==
    CASE v.t = "str" -> v.s
      [] v.t = "null" -> "None"
      [] v.t = "num" -> "<number>"
      [] v.t = "list" -> "<list>"
      [] OTHER -> "<dict>"

----------------------------------------------------------------------------
(* opensearch_hit_to_job_result_item, src/app/routers/search.py:160-303 *)

\* the outcome of a step that can raise
Ok(v) == [raised |-> FALSE, v |-> v, error |-> ""]

Raise(e) == [raised |-> TRUE, v |-> <<>>, error |-> e]

\* a member of an enumeration of jobs_data_contracts.search, named by its value
Member(enum, value) == [enum |-> enum, value |-> value]

\* the values of each enumeration's members
EnumValues ==
    [WorkingPattern |-> {"Full-time", "Part-time"},
     WorkLocation |-> {"Home based", "Office based"},
     Assignments |-> {"Permanent", "Loan"},
     Grade |-> {"Grade 7", "Grade 6"},
     Profession |-> {"Actuary", "Policy"},
     Approach |-> {"Internal", "External"}]

\* Enum(value) succeeds; otherwise it raises ValueError
IsMember(enum, v) == v.t = "str" /\ v.s \in EnumValues[enum]

WorkingPattern_full_time == Member("WorkingPattern", "Full-time")

WorkLocation_office_based == Member("WorkLocation", "Office based")

Assignments_permanent == Member("Assignments", "Permanent")

Profession_actuary == Member("Profession", "Actuary")

Approach_internal == Member("Approach", "Internal")

FixedLocation(town_name, region, latitude, longitude) ==
    [town_name |-> town_name, region |-> region, latitude |-> latitude,
     longitude |-> longitude]

PlaceholderLocation(town_name) == FixedLocation(town_name, "Unknown", 0, 0)

Salary(minimum, currency, currency_symbol) ==
    [minimum |-> minimum, currency |-> currency, currency_symbol |-> currency_symbol]

DefaultSalary == Salary(0, "GBP", "£")

Date(y, m, d) == [year |-> y, month |-> m, day |-> d]

FarFuture == Date(2099, 12, 31)

\* date.fromisoformat on the strings of the model: defined on the ISO dates,
\* ValueError on every other string
IsoDates == "2025-12-20" :> Date(2025, 12, 20)

\* float(s.replace("£", "").replace(",", "")) on the strings of the model:
\* defined where float() parses, ValueError elsewhere
SalaryFloats == ("£45,000" :> 45000) @@ ("32000" :> 32000)

\* faulty variant: an element that fails to parse is replaced alone
locationPerElement(src) ==
    LET location_data == Get(src.location, List(<<>>))
    IN  IF location_data.t = "str"
        THEN <<PlaceholderLocation(location_data.s)>>
        ELSE IF location_data.t = "list" /\ Len(location_data.l) > 0
        THEN [i \in DOMAIN location_data.l |->
                 IF location_data.l[i].t = "dict" /\ location_data.l[i].valid
                 THEN FixedLocation(location_data.l[i].town_name, location_data.l[i].region,
                                    location_data.l[i].latitude, location_data.l[i].longitude)
                 ELSE PlaceholderLocation(StrOf(location_data.l[i]))]
        ELSE <<PlaceholderLocation("Unknown")>>

\* lines 186-218
location(src) ==
    LET location_data == Get(src.location, List(<<>>))
    IN  IF location_data.t = "str"
        THEN <<PlaceholderLocation(location_data.s)>>
        ELSE IF location_data.t = "list" /\ Len(location_data.l) > 0
        THEN LET l == location_data.l
             IN  IF \E i \in DOMAIN l : l[i].t = "dict" /\ ~l[i].valid
                 THEN <<PlaceholderLocation(StrOf(l[1]))>>
                 ELSE [i \in DOMAIN l |->
                          IF l[i].t = "dict"
                          THEN FixedLocation(l[i].town_name, l[i].region,
                                             l[i].latitude, l[i].longitude)
                          ELSE PlaceholderLocation(StrOf(l[i]))]
        ELSE <<PlaceholderLocation("Unknown")>>

\* faulty variant: a falsy value is iterated as it is, giving no element
EnumListNoDefault(stored, enum, default) ==
    LET data == IF stored.t = "str" THEN List(<<stored>>) ELSE stored
        iter == IF Truthy(data) THEN data ELSE List(<<>>)
    IN  IF iter.t = "list"
        THEN Ok([i \in DOMAIN iter.l |->
                    IF IsMember(enum, iter.l[i])
                    THEN Member(enum, iter.l[i].s)
                    ELSE Member(enum, default)])
        ELSE Raise("TypeError")

\* lines 221-227 and 251-257: a string is wrapped in a list, a falsy value is
\* replaced by [default], and the comprehension iterates the value: a number
\* is not iterable (TypeError)
EnumList(stored, enum, default) ==
    LET data == IF stored.t = "str" THEN List(<<stored>>) ELSE stored
        iter == IF Truthy(data) THEN data ELSE List(<<Str(default)>>)
    IN  IF iter.t = "list"
        THEN Ok([i \in DOMAIN iter.l |->
                    IF IsMember(enum, iter.l[i])
                    THEN Member(enum, iter.l[i].s)
                    ELSE Member(enum, default)])
        ELSE Raise("TypeError")

working_pattern(src) ==
    EnumList(Get(src.workingPattern, List(<<>>)), "WorkingPattern", "Full-time")

work_location(src) ==
    EnumList(Get(src.workLocation, List(<<>>)), "WorkLocation", "Office based")

\* faulty variant: except ValueError keeps the stored value
EnumOrFallbackRaw(enum, v, fallback) ==
    IF IsMember(enum, v) THEN Member(enum, v.s) ELSE v

\* lines 230-234, 275-280, 283-287: try Enum(value) except ValueError: fallback
EnumOrFallback(enum, v, fallback) ==
    IF IsMember(enum, v) THEN Member(enum, v.s) ELSE fallback

assignment_type(src) ==
    EnumOrFallback("Assignments", Get(src.assignmentType, Str("Permanent")),
                   Assignments_permanent)

profession(src) ==
    EnumOrFallback("Profession", Get(src.profession, Str("")), Profession_actuary)

approach(src) ==
    EnumOrFallback("Approach", Get(src.approach, Str("Internal")), Approach_internal)

\* lines 260-264: except ValueError: grade = grade_str or "Unknown"
grade(src) ==
    LET grade_str == Get(src.grade, Str(""))
    IN  IF IsMember("Grade", grade_str) THEN Member("Grade", grade_str.s)
        ELSE IF Truthy(grade_str) THEN grade_str ELSE Str("Unknown")

\* lines 267-272
closing_date(src) ==
    LET closing_date_str == Get(src.closingDate, Str(""))
    IN  IF closing_date_str.t = "str" /\ closing_date_str.s \in DOMAIN IsoDates
        THEN IsoDates[closing_date_str.s]
        ELSE FarFuture

\* Salary(**salary_data) validates: minimum must be a number
SalaryAccepts(d) == d.minimum.t = "num"

\* faulty variant: the structured branch is guarded like the string branch
salaryGuarded(src) ==
    LET salary_data == Get(src.salary, Null)
    IN  IF salary_data.t = "dict" /\ "minimum" \in salary_data.keys
        THEN IF SalaryAccepts(salary_data)
             THEN Ok(Salary(salary_data.minimum.n, salary_data.currency,
                            salary_data.currency_symbol))
             ELSE Ok(DefaultSalary)
        ELSE IF salary_data.t = "str" /\ salary_data.s \in DOMAIN SalaryFloats
        THEN Ok(Salary(SalaryFloats[salary_data.s], "GBP", "£"))
        ELSE Ok(DefaultSalary)

\* lines 237-248
salary(src) ==
    LET salary_data == Get(src.salary, Null)
    IN  IF salary_data.t = "dict" /\ "minimum" \in salary_data.keys
        THEN IF SalaryAccepts(salary_data)
             THEN Ok(Salary(salary_data.minimum.n, salary_data.currency,
                            salary_data.currency_symbol))
             ELSE Raise("ValidationError")
        ELSE IF salary_data.t = "str" /\ salary_data.s \in DOMAIN SalaryFloats
        THEN Ok(Salary(SalaryFloats[salary_data.s], "GBP", "£"))
        ELSE Ok(DefaultSalary)

\* source = hit.get("_source", {}): every key of the empty dict is absent
EmptySource ==
    [id |-> Missing, externalId |-> Missing, title |-> Missing,
     organisation |-> Missing, location |-> Missing, workingPattern |-> Missing,
     assignmentType |-> Missing, salary |-> Missing, workLocation |-> Missing,
     grade |-> Missing, closingDate |-> Missing, profession |-> Missing,
     approach |-> Missing]

JobResultItem(src) ==
    [id |-> Get(src.id, Str("")),
     external_id |-> Get(src.externalId, Get(src.id, Str(""))),
     title |-> Get(src.title, Str("")),
     organisation |-> Get(src.organisation, Str("")),
     location |-> location(src),
     working_pattern |-> working_pattern(src).v,
     assignment_type |-> assignment_type(src),
     salary |-> salary(src).v,
     work_location |-> work_location(src).v,
     grade |-> grade(src),
     closing_date |-> closing_date(src),
     profession |-> profession(src),
     approach |-> approach(src)]

\* the first step that raises, in the order of the code, decides the error
opensearch_hit_to_job_result_item(h) ==
    LET src == IF IsNone(h.source) THEN EmptySource ELSE h.source[1]
    IN  IF working_pattern(src).raised THEN Raise(working_pattern(src).error)
        ELSE IF salary(src).raised THEN Raise(salary(src).error)
        ELSE IF work_location(src).raised THEN Raise(work_location(src).error)
        ELSE Ok(JobResultItem(src))

----------------------------------------------------------------------------
(* Bounded raw documents: a well-formed document changed in at most        *)
(* MaxDeviations fields (StoreField)                                       *)

MaxDeviations == 2

WellFormedSalary == SalaryDict({"minimum", "currency", "currency_symbol"}, Num(45000))

Baseline ==
    [id |-> Str("job-1"), externalId |-> Str("ext-1"), title |-> Str("Policy Advisor"),
     organisation |-> Str("HMRC"),
     location |-> List(<<LocDict("London", "London", 51, 0, TRUE), Str("Leeds")>>),
     workingPattern |-> Str("Part-time"),
     assignmentType |-> Str("Loan"),
     salary |-> WellFormedSalary,
     workLocation |-> Str("Home based"),
     grade |-> Str("Grade 6"),
     closingDate |-> Str("2025-12-20"),
     profession |-> Str("Policy"),
     approach |-> Str("External")]

FieldKinds ==
    [id |-> {Missing},
     externalId |-> {Missing},
     title |-> {Missing},
     organisation |-> {Missing},
     location |-> {Missing, Null, Str("London"), List(<<>>), Num(7),
                   List(<<Str("Leeds"), LocDict("York", "Yorkshire", 54, -1, FALSE)>>),
                   List(<<LocDict("York", "Yorkshire", 54, -1, FALSE), Str("Leeds")>>)},
     workingPattern |-> {Missing, Null, Str("Full-time"), Str("Nights"), List(<<>>),
                         List(<<Str("Part-time"), Str("Nights")>>), Num(5)},
     assignmentType |-> {Missing, Null, Str("Permanent"), Str("Temp")},
     salary |-> {Missing, Null, Num(45000), Str("£45,000"), Str("Competitive"),
                 SalaryDict({"minimum", "currency", "currency_symbol"}, Str("abc")),
                 SalaryDict({"maximum"}, Missing)},
     workLocation |-> {Missing, Null, Str("Office based"), Str("Moon"),
                       List(<<Str("Moon"), Str("Home based")>>), Num(5)},
     grade |-> {Missing, Null, Str(""), Str("Grade 7"), Str("Grade 99")},
     closingDate |-> {Missing, Null, Str("20 December 2025"), Num(20251220)},
     profession |-> {Missing, Null, Str("Actuary"), Str("Wizard")},
     approach |-> {Missing, Null, Str("Internal"), Str("Sideways")}]

\* the number of fields in which a document differs from the well-formed one
Deviations(src) == Cardinality({f \in DOMAIN Baseline : src[f] # Baseline[f]})

----------------------------------------------------------------------------
(* Settings, src/app/config.py:59-67, and the request parameters *)

default_page_size == 10

max_page_size == 100

\* the bounds FastAPI validates pageSize against: Query(None, ge=1, le=100)
PageSizeGe == 1

PageSizeLe == 100

\* default_page_size and max_page_size as the environment can set them
SettingsValues ==
    [default_page_size : {default_page_size, 60},
     max_page_size : {max_page_size, 50}]

IdleSettings ==
    [default_page_size |-> default_page_size, max_page_size |-> max_page_size]

----------------------------------------------------------------------------
(* GET /jobs: search_jobs, src/app/routers/search.py:306-421 *)

MaxPage == 3

MaxTotal == 6

MaxBadPos == 2

\* the match count of the pagination scenario (50 matches)
ScenarioTotal == 50

\* page: omitted, or an integer; 0 is refused by validation (ge=1)
PageArgs == {None} \cup {Some(p) : p \in 0..MaxPage}

\* pageSize: omitted, or an integer; 0 and 101 are refused by validation
PageSizeArgs == {None} \cup {Some(n) : n \in {0, 1, 2, 3, 20, 100, 101}}

\* the filters sent with a request
RequestArgs ==
    [q : {None, Some("policy")},
     organisation : {None, Some("HMRC")},
     professions : {None},
     grades : {None, Some(<<"Grade 7">>)},
     assignments : {None},
     working_patterns : {None},
     work_locations : {None},
     salary_min : {None, Some(0)},
     salary_max : {None}]

\* query parameters of the repository's tests that search_jobs does not
\* declare (src/tests/test_api.py line 209); FastAPI binds declared names only
UnboundNames == {"grade"}

NoRequest == [args |-> NoArgs, page |-> 0, page_size |-> None, unbound |-> {}]

\* page: int = Query(1, ge=1)
ValidPage(page) == IF IsNone(page) THEN TRUE ELSE page[1] >= 1

\* page_size: int = Query(None, alias="pageSize", ge=1, le=100)
ValidPageSize(page_size) ==
    IF IsNone(page_size) THEN TRUE
    ELSE page_size[1] >= PageSizeGe /\ page_size[1] <= PageSizeLe

\* faulty variant: the requested page size is ignored
EffectivePageSizeDefault(req) == settings.default_page_size

\* lines 337-338: the configured default replaces an omitted page size
EffectivePageSize(req) ==
    IF IsNone(req.page_size) THEN settings.default_page_size ELSE req.page_size[1]

\* faulty variant: a 0-indexed page
from_indexZeroBased(page, page_size) == page * page_size

\* line 354
from_index(page, page_size) == (page - 1) * page_size

\* faulty variant: always ask for the largest page
SearchBodyMaxSize(query, from, page_size) ==
    [query |-> query, from |-> from, size |-> PageSizeLe,
     sort |-> <<[field |-> "_score", order |-> "desc"], [field |-> "id", order |-> "asc"]>>]

\* lines 360-368: the body of the single search
SearchBody(query, from, page_size) ==
    [query |-> query, from |-> from, size |-> page_size,
     sort |-> <<[field |-> "_score", order |-> "desc"], [field |-> "id", order |-> "asc"]>>]

\* faulty variant: floor instead of ceiling
total_pagesFloor(total, page_size) == IF total > 0 THEN total \div page_size ELSE 0

\* faulty variant: floor plus one, whatever the total
total_pagesPlusOne(total, page_size) == total \div page_size + 1

\* line 386: math.ceil(total / page_size) if total > 0 else 0.  The float
\* quotient is exact enough for the ceiling to be the integer ceiling for
\* every match count an index can hold (below 2^53 / 100).
total_pages(total, page_size) ==
    IF total > 0 THEN (total + page_size - 1) \div page_size ELSE 0

\* lines 388-407: the parts of appliedFilters, in order (joined with "; ")
applied_filters(a) ==
    (IF TruthyStr(a.organisation)
     THEN <<[name |-> "organisation", value |-> a.organisation]>> ELSE <<>>)
    \o (IF TruthyList(a.professions)
        THEN <<[name |-> "professions", value |-> a.professions]>> ELSE <<>>)
    \o (IF TruthyList(a.grades)
        THEN <<[name |-> "grades", value |-> a.grades]>> ELSE <<>>)
    \o (IF TruthyList(a.assignments)
        THEN <<[name |-> "assignments", value |-> a.assignments]>> ELSE <<>>)
    \o (IF TruthyList(a.working_patterns)
        THEN <<[name |-> "workingPatterns", value |-> a.working_patterns]>> ELSE <<>>)
    \o (IF TruthyList(a.work_locations)
        THEN <<[name |-> "workLocations", value |-> a.work_locations]>> ELSE <<>>)
    \o (IF ~IsNone(a.salary_min)
        THEN <<[name |-> "salaryMin", value |-> a.salary_min]>> ELSE <<>>)
    \o (IF ~IsNone(a.salary_max)
        THEN <<[name |-> "salaryMax", value |-> a.salary_max]>> ELSE <<>>)

\* faulty variant: the first hit that fails to map ends the loop
RECURSIVE MapHitsStopAtFailure(_)
MapHitsStopAtFailure(hits) ==
    IF hits = <<>> THEN <<>>
    ELSE LET m == opensearch_hit_to_job_result_item(Head(hits))
         IN  IF m.raised THEN <<>> ELSE <<m.v>> \o MapHitsStopAtFailure(Tail(hits))

\* lines 376-383: the mapped records of the hits that map, in the hits' order
RECURSIVE MapHits(_)
MapHits(hits) ==
    IF hits = <<>> THEN <<>>
    ELSE LET m == opensearch_hit_to_job_result_item(Head(hits))
         IN  (IF m.raised THEN <<>> ELSE <<m.v>>) \o MapHits(Tail(hits))

\* lines 372-374: hits.total is {"value": n} or, from an older engine, n
TotalOf(r) == r.total.value

Http422 == [status |-> 422]

\* faulty variant: the detail hides the underlying error
Http500Generic(msg) == [status |-> 500, detail |-> <<"Search failed", "">>]

\* line 421
Http500(msg) == [status |-> 500, detail |-> <<"Search failed: ", msg>>]

\* lines 409-417
JobSearchResponse(req, r) ==
    [status |-> 200,
     results |-> MapHits(r.hits),
     total |-> TotalOf(r),
     page |-> req.page,
     pageSize |-> EffectivePageSize(req),
     totalPages |-> total_pages(TotalOf(r), EffectivePageSize(req)),
     query |-> IF TruthyStr(req.args.q) THEN req.args.q[1] ELSE "",
     appliedFilters |-> applied_filters(req.args)]

----------------------------------------------------------------------------
(* The search engine behind client.search *)

Min(a, b) == IF a < b THEN a ELSE b

Max(a, b) == IF a > b THEN a ELSE b

Totals == (0..MaxTotal) \cup {ScenarioTotal}

\* the document at a position of the ranked matches; the documents at the
\* positions in bad hold a salary object whose minimum is not a number
HitAt(pos, bad) ==
    [source |-> Some([Baseline EXCEPT
        !.id = Str(ToString(pos)),
        !.salary = IF pos \in bad
                   THEN SalaryDict({"minimum", "currency", "currency_symbol"}, Str("abc"))
                   ELSE WellFormedSalary])]

\* the engine answers a search with the match count and the matches
\* from+1 .. from+size of the ranking, as far as they exist
EngineReply(body, total, form, bad) ==
    [raised |-> FALSE, error |-> "",
     total |-> [form |-> form, value |-> total],
     hits |-> [i \in 1..Min(body.size, Max(0, total - body.from)) |->
                  HitAt(body.from + i, bad)]]

\* the engine is unreachable or answers with an error: client.search raises
EngineError == [raised |-> TRUE, error |-> "ConnectionError", total |-> [form |-> "dict", value |-> 0], hits |-> <<>>]

\* str(e) of the exceptions client.search raises: no connection, or an error
\* answer of the engine
EngineErrors == {EngineError.error, "NotFoundError(404, 'index_not_found_exception')"}

----------------------------------------------------------------------------
(* The application: src/app/main.py and src/app/opensearch_client.py *)

NumProcs == 2

MaxFlips == 2

MaxDocs == 1

MaxStarts == 2

\* the worker processes; each runs lifespan and has its own global _client
Procs == 1..NumProcs

\* what the engine holds: documents are stored in the jobs index only
EngineStates ==
    {e \in [reachable : BOOLEAN, index_exists : BOOLEAN,
            docs : 0..MaxDocs, creations : {0}] :
        ~e.index_exists => e.docs = 0}

IdleEngine == [reachable |-> FALSE, index_exists |-> FALSE, docs |-> 0, creations |-> 0]

\* a process before its first startup.  client is the global _client: 0 is
\* None, n is the n-th client object the process constructed; made counts the
\* constructions, closed holds the clients close() was called on, got is the
\* client the last call of get_opensearch_client returned
BootProc ==
    [pc |-> "boot", client |-> 0, made |-> 0, closed |-> {}, got |-> 0,
     startup |-> "pending", ensured |-> "none"]

\* faulty variant: a client is constructed on every call
get_opensearch_clientFresh(pr) ==
    [pr EXCEPT !.client = pr.made + 1, !.made = pr.made + 1, !.got = pr.made + 1]

\* opensearch_client.py lines 28-59: the client is constructed when _client
\* is None, and the same object is returned afterwards
get_opensearch_client(pr) ==
    IF pr.client = 0
    THEN [pr EXCEPT !.client = pr.made + 1, !.made = pr.made + 1, !.got = pr.made + 1]
    ELSE [pr EXCEPT !.got = pr.client]

\* opensearch_client.py lines 276-279: nothing happens when _client is None
close_client(pr) ==
    IF pr.client # 0
    THEN [pr EXCEPT !.closed = @ \cup {pr.client}, !.client = 0]
    ELSE pr

ConnectionError == "ConnectionError"

AlreadyExists == "RequestError(400, 'resource_already_exists_exception')"

IndexNotFound == "NotFoundError(404, 'index_not_found_exception')"

\* client.info() (opensearch_client.py line 262)
client_info(e) == IF e.reachable THEN Ok("cluster") ELSE Raise(ConnectionError)

\* opensearch_client.py lines 253-267: True when client.info() answers,
\* False on any exception
check_opensearch_connection(e) == ~client_info(e).raised

\* client.indices.exists (opensearch_client.py line 231)
indices_exists(e) == IF e.reachable THEN Ok(e.index_exists) ELSE Raise(ConnectionError)

\* client.indices.create (opensearch_client.py line 237): the engine refuses
\* to create an index that exists
indices_create(e) ==
    IF ~e.reachable THEN Raise(ConnectionError)
    ELSE IF e.index_exists THEN Raise(AlreadyExists)
    ELSE Ok(TRUE)

\* the engine after client.indices.create
engine_after_create(e) ==
    IF indices_create(e).raised THEN e
    ELSE [e EXCEPT !.index_exists = TRUE, !.creations = @ + 1]

\* faulty variant: the error of a lost race is raised like any other
ensure_index_exists_createStrict(e) ==
    LET o == indices_create(e)
    IN  IF ~o.raised THEN Ok(TRUE) ELSE Raise(o.error)

\* opensearch_client.py lines 235-250: what ensure_index_exists returns or
\* raises once client.indices.create has returned or raised
ensure_index_exists_create(e) ==
    LET o == indices_create(e)
    IN  IF ~o.raised THEN Ok(TRUE)
        ELSE IF o.error = AlreadyExists THEN Ok(TRUE)
        ELSE Raise(o.error)

\* faulty variant: an exception of ensure_index_exists ends the startup
AfterStartupPropagate(outcome) == IF outcome.raised THEN "failed" ELSE "serving"

\* main.py lines 59-74: whatever the startup steps returned or raised, the
\* exception is logged and lifespan reaches its yield
AfterStartup(outcome) == "serving"

\* faulty variant: the status does not follow the connectivity check
HealthResponseHealthy(opensearch_connected) ==
    [status |-> 200,
     body |-> [status |-> "healthy", opensearch_connected |-> opensearch_connected]]

\* main.py lines 122-126 (the timestamp is left out)
HealthResponse(opensearch_connected) ==
    [status |-> 200,
     body |-> [status |-> IF opensearch_connected THEN "healthy" ELSE "degraded",
               opensearch_connected |-> opensearch_connected]]

\* main.py lines 109-126
health_check(e) == HealthResponse(check_opensearch_connection(e))

\* main.py lines 129-142
root == [status |-> 200, body |-> [docs |-> "/docs"]]

\* the routes of the application: main.py lines 106, 109 and 129, and the one
\* route of the router, search.py lines 34 and 306
Routes ==
    {[method |-> "GET", path |-> <<"health">>, endpoint |-> "health_check"],
     [method |-> "GET", path |-> <<>>, endpoint |-> "root"],
     [method |-> "GET", path |-> <<"jobs">>, endpoint |-> "search_jobs"]}

\* the router of FastAPI: the endpoint of the route matching path and method;
\* 405 when only the path matches, 404 when no route has the path
Dispatch(method, path) ==
    IF \E r \in Routes : r.method = method /\ r.path = path
    THEN [endpoint |-> (CHOOSE r \in Routes : r.method = method /\ r.path = path).endpoint,
          status |-> 0]
    ELSE IF \E r \in Routes : r.path = path
    THEN [endpoint |-> "", status |-> 405]
    ELSE [endpoint |-> "", status |-> 404]

Methods == {"GET", "POST"}

\* the identifiers asked for: the first stored document, and one never stored
RequestIds == {"1", "nonexistent"}

Paths == {<<"health">>, <<>>, <<"jobs">>} \cup {<<"jobs", id>> : id \in RequestIds}

\* what client.search returns or raises for a request without parameters
client_search(e, body) ==
    IF ~e.reachable THEN [EngineError EXCEPT !.error = ConnectionError]
    ELSE IF ~e.index_exists THEN [EngineError EXCEPT !.error = IndexNotFound]
    ELSE EngineReply(body, e.docs, "dict", {})

\* search_jobs (search.py lines 333-421) for a request without parameters
search_jobs(e) ==
    LET req == [NoRequest EXCEPT !.page = 1]
        r == client_search(e, SearchBody(build_search_query(req.args),
                                         from_index(req.page, EffectivePageSize(req)),
                                         EffectivePageSize(req)))
    IN  IF r.raised THEN Http500(r.error) ELSE JobSearchResponse(req, r)

\* faulty variant: a failed search is tried once more
search_jobs_callsRetry(e) ==
    IF search_jobs(e).status = 500 THEN <<"search", "search">> ELSE <<"search">>

\* the calls search_jobs makes on the client (search.py lines 358-369): one
\* client.search; the except branch (lines 419-421) makes none
search_jobs_calls(e) == <<"search">>

\* the calls health_check makes on the client (opensearch_client.py line 262)
health_check_calls(e) == <<"info">>

Exchange(p, method, path, e, resp, calls) ==
    [proc |-> p, method |-> method, path |-> path, reachable |-> e.reachable,
     response |-> resp, calls |-> calls]

----------------------------------------------------------------------------
(* Actions *)

IdleQuery == args = NoArgs /\ query_out = None

IdleMapper == hit = [source |-> None] /\ item_out = None

IdleHandler ==
    /\ settings = IdleSettings
    /\ pc = "idle"
    /\ request = NoRequest
    /\ sent = <<>>
    /\ reply = None
    /\ response = None

handlerVars == <<settings, pc, request, sent, reply, response>>

IdleApp ==
    /\ engine = IdleEngine
    /\ proc = [p \in Procs |-> BootProc]
    /\ http = None
    /\ flips = 0

appVars == <<engine, proc, http, flips>>

\* the call build_search_query(**args)
BuildQuery ==
    /\ query_out = None
    /\ query_out' = Some(build_search_query(args))
    /\ UNCHANGED <<args, hit, item_out, handlerVars, appVars>>

\* a document is stored with one of its fields changed
StoreField ==
    /\ item_out = None
    /\ hit.source # None
    /\ \E f \in DOMAIN FieldKinds :
          \E v \in FieldKinds[f] :
             LET src == [hit.source[1] EXCEPT ![f] = v]
             IN  /\ Deviations(src) <= MaxDeviations
                 /\ hit' = [source |-> Some(src)]
    /\ UNCHANGED <<args, query_out, item_out, handlerVars, appVars>>

\* the call opensearch_hit_to_job_result_item(hit)
MapHit ==
    /\ item_out = None
    /\ item_out' = Some(opensearch_hit_to_job_result_item(hit))
    /\ UNCHANGED <<args, query_out, hit, handlerVars, appVars>>

\* FastAPI refuses a request whose page or pageSize is out of bounds
RejectRequest ==
    /\ pc = "idle"
    /\ \E page \in PageArgs, page_size \in PageSizeArgs :
          /\ ~(ValidPage(page) /\ ValidPageSize(page_size))
          /\ response' = Some(Http422)
    /\ pc' = "done"
    /\ UNCHANGED <<args, query_out, hit, item_out, settings, request, sent, reply, appVars>>

\* search_jobs up to the call of client.search (lines 333-369)
search_jobs_call ==
    /\ pc = "idle"
    /\ \E a \in RequestArgs, page \in PageArgs, page_size \in PageSizeArgs,
          extra \in SUBSET UnboundNames :
          /\ ValidPage(page) /\ ValidPageSize(page_size)
          /\ LET req == [args |-> a,
                         page |-> IF IsNone(page) THEN 1 ELSE page[1],
                         page_size |-> page_size,
                         unbound |-> extra]
             IN  /\ request' = req
                 /\ sent' = Append(sent,
                        SearchBody(build_search_query(a),
                                   from_index(req.page, EffectivePageSize(req)),
                                   EffectivePageSize(req)))
    /\ pc' = "searching"
    /\ UNCHANGED <<args, query_out, hit, item_out, settings, reply, response, appVars>>

\* client.search returns, and search_jobs builds the response (lines 371-417)
search_jobs_return ==
    /\ pc = "searching"
    /\ \E total \in Totals, form \in {"dict", "int"}, bad \in SUBSET (1..MaxBadPos) :
          LET r == EngineReply(sent[Len(sent)], total, form, bad)
          IN  /\ reply' = Some(r)
              /\ response' = Some(JobSearchResponse(request, r))
    /\ pc' = "done"
    /\ UNCHANGED <<args, query_out, hit, item_out, settings, request, sent, appVars>>

\* client.search raises, and search_jobs answers 500 (lines 419-421)
search_jobs_error ==
    /\ pc = "searching"
    /\ \E e \in EngineErrors :
          /\ reply' = Some([EngineError EXCEPT !.error = e])
          /\ response' = Some(Http500(e))
    /\ pc' = "done"
    /\ UNCHANGED <<args, query_out, hit, item_out, settings, request, sent, appVars>>

\* lifespan up to the connectivity check (main.py lines 55-61 and 68)
lifespan_connect(p) ==
    /\ proc[p].pc = "boot"
    /\ LET connected == check_opensearch_connection(engine)
       IN  proc' = [proc EXCEPT ![p] =
                [get_opensearch_client(proc[p]) EXCEPT
                    !.pc = IF connected THEN "exists" ELSE AfterStartup(Ok(FALSE)),
                    !.startup = IF connected THEN "pending" ELSE "unavailable"]]
    /\ UNCHANGED <<args, query_out, hit, item_out, handlerVars, engine, http, flips>>

\* ensure_index_exists up to client.indices.exists
\* (opensearch_client.py lines 225-233)
lifespan_exists(p) ==
    /\ proc[p].pc = "exists"
    /\ LET o == indices_exists(engine)
       IN  proc' = [proc EXCEPT ![p] =
                [get_opensearch_client(proc[p]) EXCEPT
                    !.pc = IF o.raised THEN AfterStartup(o)
                           ELSE IF o.v THEN AfterStartup(Ok(TRUE))
                           ELSE "create",
                    !.startup = IF o.raised THEN "failed"
                                ELSE IF o.v THEN "ready"
                                ELSE "pending",
                    !.ensured = IF o.raised THEN "raised"
                                ELSE IF o.v THEN "exists"
                                ELSE "none"]]
    /\ UNCHANGED <<args, query_out, hit, item_out, handlerVars, engine, http, flips>>

\* ensure_index_exists from client.indices.create on
\* (opensearch_client.py lines 235-250), and the rest of the startup
lifespan_create(p) ==
    /\ proc[p].pc = "create"
    /\ LET o == ensure_index_exists_create(engine)
       IN  proc' = [proc EXCEPT ![p].pc = AfterStartup(o),
                                ![p].startup = IF o.raised THEN "failed" ELSE "ready",
                                ![p].ensured = IF o.raised THEN "raised"
                                               ELSE IF indices_create(engine).raised
                                               THEN "raced"
                                               ELSE "created"]
    /\ engine' = engine_after_create(engine)
    /\ UNCHANGED <<args, query_out, hit, item_out, handlerVars, http, flips>>

\* GET /health
health_check_request(p) ==
    /\ proc[p].pc = "serving"
    /\ Dispatch("GET", <<"health">>).endpoint = "health_check"
    /\ proc' = [proc EXCEPT ![p] = get_opensearch_client(proc[p])]
    /\ http' = Some(Exchange(p, "GET", <<"health">>, engine, health_check(engine),
                             health_check_calls(engine)))
    /\ UNCHANGED <<args, query_out, hit, item_out, handlerVars, engine, flips>>

\* GET /
root_request(p) ==
    /\ proc[p].pc = "serving"
    /\ Dispatch("GET", <<>>).endpoint = "root"
    /\ http' = Some(Exchange(p, "GET", <<>>, engine, root, <<>>))
    /\ UNCHANGED <<args, query_out, hit, item_out, handlerVars, engine, proc, flips>>

\* GET /jobs without parameters
search_jobs_request(p) ==
    /\ proc[p].pc = "serving"
    /\ Dispatch("GET", <<"jobs">>).endpoint = "search_jobs"
    /\ proc' = [proc EXCEPT ![p] = get_opensearch_client(proc[p])]
    /\ http' = Some(Exchange(p, "GET", <<"jobs">>, engine, search_jobs(engine),
                             search_jobs_calls(engine)))
    /\ UNCHANGED <<args, query_out, hit, item_out, handlerVars, engine, flips>>

\* a request no route of the application matches: no handler runs
unrouted_request(p) ==
    /\ proc[p].pc = "serving"
    /\ \E method \in Methods, path \in Paths :
          /\ Dispatch(method, path).endpoint = ""
          /\ http' = Some(Exchange(p, method, path, engine,
                                   [status |-> Dispatch(method, path).status], <<>>))
    /\ UNCHANGED <<args, query_out, hit, item_out, handlerVars, engine, proc, flips>>

\* lifespan after its yield (main.py lines 76-78)
lifespan_shutdown(p) ==
    /\ proc[p].pc = "serving"
    /\ proc' = [proc EXCEPT ![p] = [close_client(proc[p]) EXCEPT !.pc = "stopped"]]
    /\ UNCHANGED <<args, query_out, hit, item_out, handlerVars, engine, http, flips>>

\* the application is started again in the same interpreter: lifespan runs
\* once more (main.py lines 55-57), with the module global _client as it is
lifespan_restart(p) ==
    /\ proc[p].pc = "stopped"
    /\ proc[p].made < MaxStarts
    /\ proc' = [proc EXCEPT ![p].pc = "boot", ![p].startup = "pending",
                            ![p].ensured = "none"]
    /\ UNCHANGED <<args, query_out, hit, item_out, handlerVars, engine, http, flips>>

\* the engine goes down or comes back
EngineFlip ==
    /\ flips < MaxFlips
    /\ flips' = flips + 1
    /\ engine' = [engine EXCEPT !.reachable = ~@]
    /\ UNCHANGED <<args, query_out, hit, item_out, handlerVars, proc, http>>

----------------------------------------------------------------------------
(* Specifications *)

InitQuery == args \in QueryArgs /\ query_out = None /\ IdleMapper /\ IdleHandler /\ IdleApp

NextQuery == BuildQuery

SpecQuery == InitQuery /\ [][NextQuery]_vars

\* a hit without "_source", or a hit holding the well-formed document
InitMapper ==
    /\ hit \in {[source |-> None], [source |-> Some(Baseline)]}
    /\ item_out = None
    /\ IdleQuery
    /\ IdleHandler
    /\ IdleApp

NextMapper ==
    \/ StoreField
    \/ MapHit

SpecMapper == InitMapper /\ [][NextMapper]_vars

Init ==
    /\ IdleQuery
    /\ IdleMapper
    /\ settings \in SettingsValues
    /\ pc = "idle"
    /\ request = NoRequest
    /\ sent = <<>>
    /\ reply = None
    /\ response = None
    /\ IdleApp

Next ==
    \/ RejectRequest
    \/ search_jobs_call
    \/ search_jobs_return
    \/ search_jobs_error

Spec == Init /\ [][Next]_vars

InitApp ==
    /\ IdleQuery
    /\ IdleMapper
    /\ IdleHandler
    /\ engine \in EngineStates
    /\ proc = [p \in Procs |-> BootProc]
    /\ http = None
    /\ flips = 0

NextApp ==
    \/ \E p \in Procs : lifespan_connect(p)
    \/ \E p \in Procs : lifespan_exists(p)
    \/ \E p \in Procs : lifespan_create(p)
    \/ \E p \in Procs : health_check_request(p)
    \/ \E p \in Procs : root_request(p)
    \/ \E p \in Procs : search_jobs_request(p)
    \/ \E p \in Procs : unrouted_request(p)
    \/ \E p \in Procs : lifespan_shutdown(p)
    \/ EngineFlip

SpecApp == InitApp /\ [][NextApp]_vars

\* one interpreter in which the application is started, stopped and started
\* again, up to MaxStarts times
Interpreter == 1

NextClient ==
    \/ lifespan_connect(Interpreter)
    \/ lifespan_exists(Interpreter)
    \/ lifespan_create(Interpreter)
    \/ health_check_request(Interpreter)
    \/ search_jobs_request(Interpreter)
    \/ lifespan_shutdown(Interpreter)
    \/ lifespan_restart(Interpreter)
    \/ EngineFlip

SpecClient == InitApp /\ [][NextClient]_vars

----------------------------------------------------------------------------
(* Claims about GET /jobs (Spec) *)

Ok200 == response # None /\ response[1].status = 200

\* C1: in every successful GET /jobs response totalPages is 0 when the total
\* reported by the engine is 0, and otherwise the ceiling of total / pageSize:
\* the least number of pages of pageSize results that hold total results.
C1_TotalPagesIsCeiling ==
    Ok200 =>
        LET r == response[1]
            total == reply[1].total.value
        IN  /\ r.total = total
            /\ IF total = 0 THEN r.totalPages = 0
               ELSE /\ r.totalPages * r.pageSize >= total
                    /\ (r.totalPages - 1) * r.pageSize < total

C1_Witness ==
    /\ Ok200
    /\ reply[1].total.value = 5
    /\ response[1].pageSize = 2
    /\ response[1].totalPages = 3

\* the page size the request asked for, or the configured default
RequestedPageSize ==
    IF request.page_size = None THEN settings.default_page_size ELSE request.page_size[1]

\* C2: the single search of a request carries from = (page - 1) * pageSize and
\* size = pageSize; page=2, pageSize=20 against 50 matches gives offset 20 and
\* a response with page=2, pageSize=20, totalPages=3.
C2_OffsetAndSize ==
    /\ pc # "idle" /\ sent # <<>> =>
          /\ Len(sent) = 1
          /\ sent[1].from = (request.page - 1) * RequestedPageSize
          /\ sent[1].size = RequestedPageSize
    /\ (Ok200 /\ request.page = 2 /\ request.page_size = Some(20)
            /\ reply[1].total.value = ScenarioTotal) =>
          /\ sent[1].from = 20
          /\ response[1].page = 2
          /\ response[1].pageSize = 20
          /\ response[1].totalPages = 3

C2_Witness ==
    /\ Ok200
    /\ request.page = 2
    /\ request.page_size = Some(20)
    /\ reply[1].total.value = ScenarioTotal
    /\ sent[1].from = 20
    /\ Len(reply[1].hits) = 20

\* C3: in every successful GET /jobs response the results list is no longer
\* than pageSize.
C3_ResultsWithinPageSize ==
    Ok200 => Len(response[1].results) <= response[1].pageSize

C3_Witness ==
    /\ Ok200
    /\ response[1].pageSize = 3
    /\ Len(response[1].results) = 3
    /\ response[1].total > 3

\* C4: the pageSize of every GET /jobs response lies within
\* [1, configured max_page_size], whether the caller gave pageSize or the
\* configured default_page_size was used.
C4_PageSizeWithinConfiguredMax ==
    Ok200 =>
        /\ response[1].pageSize >= 1
        /\ response[1].pageSize <= settings.max_page_size

\* C5: when the total match count is 0 the response has no results and
\* totalPages = 0, whatever the page and page size; a parameterless GET /jobs
\* against an empty index answers results=[], total=0, page=1, totalPages=0.
C5_EmptyTotal ==
    (Ok200 /\ reply[1].total.value = 0) =>
        /\ response[1].results = <<>>
        /\ response[1].totalPages = 0
        /\ response[1].total = 0
        /\ (request.args = NoArgs /\ request.page_size = None /\ request.page = 1)
              => response[1].page = 1

C5_Witness ==
    /\ Ok200
    /\ reply[1].total.value = 0
    /\ request.args = NoArgs
    /\ request.page_size = None
    /\ response[1].page = 1
    /\ response[1].results = <<>>
    /\ response[1].totalPages = 0

----------------------------------------------------------------------------
(* Claims about build_search_query (SpecQuery) *)

ListFilters == {"professions", "grades", "assignments", "working_patterns", "work_locations"}

\* the stored field each multi-select filter is matched against
FieldOf ==
    [professions |-> "profession.keyword", grades |-> "grade",
     assignments |-> "assignmentType", working_patterns |-> "workingPattern",
     work_locations |-> "workLocation"]

PresentStr(o) == o # None /\ o # Some("")

PresentList(o) == o # None /\ o # Some(<<>>)

SalaryPresent(a) == a.salary_min # None \/ a.salary_max # None

NothingPresent(a) ==
    /\ ~PresentStr(a.q)
    /\ ~PresentStr(a.organisation)
    /\ \A f \in ListFilters : ~PresentList(a[f])
    /\ ~SalaryPresent(a)

AnyFilterPresent(a) ==
    \/ PresentStr(a.organisation)
    \/ \E f \in ListFilters : PresentList(a[f])
    \/ SalaryPresent(a)

\* C6: build_search_query returns the match-all query exactly when no free
\* text and no filter is present; None, "" and [] count as not present, and a
\* salary bound of 0 counts as present.
C6_MatchAllIffNothingPresent ==
    query_out # None =>
        /\ query_out[1].kind \in {"match_all", "bool"}
        /\ query_out[1].kind = "match_all" <=> NothingPresent(args)

C6_Witness ==
    /\ query_out # None
    /\ query_out[1].kind = "match_all"
    /\ args.q = Some("")
    /\ args.organisation = Some("")
    /\ args.grades = Some(<<>>)

\* the number of filter clauses the supplied filters call for
SuppliedFilters(a) ==
    (IF PresentStr(a.organisation) THEN 1 ELSE 0)
    + Cardinality({f \in ListFilters : PresentList(a[f])})
    + (IF SalaryPresent(a) THEN 1 ELSE 0)

\* C7: with free text and at least one filter, the query is a boolean query
\* whose must part is only the multi-field relevance match and whose filter
\* part holds a clause for every supplied filter; no filter clause is in must
\* and the relevance match is not in filter.
C7_MustAndFilterSeparate ==
    (query_out # None /\ PresentStr(args.q) /\ AnyFilterPresent(args)) =>
        LET qy == query_out[1]
        IN  /\ qy.kind = "bool"
            /\ qy.keys = {"must", "filter"}
            /\ Len(qy.must) = 1
            /\ qy.must[1].op = "multi_match"
            /\ qy.must[1].query = args.q[1]
            /\ \A i \in DOMAIN qy.filter : qy.filter[i].op \in {"term", "terms", "range"}
            /\ PresentStr(args.organisation) =>
                  \E i \in DOMAIN qy.filter : qy.filter[i].field = "organisation.keyword"
            /\ \A f \in ListFilters :
                  PresentList(args[f]) =>
                      \E i \in DOMAIN qy.filter : qy.filter[i].field = FieldOf[f]
            /\ SalaryPresent(args) =>
                  \E i \in DOMAIN qy.filter : qy.filter[i].op = "range"
            /\ Len(qy.filter) = SuppliedFilters(args)

C7_Witness ==
    /\ query_out # None
    /\ args.q = Some("policy")
    /\ args.organisation = Some("HMRC")
    /\ args.grades = Some(<<"Grade 7", "Grade 6">>)
    /\ args.salary_min = Some(0)
    /\ Len(query_out[1].must) = 1
    /\ Len(query_out[1].filter) = 3

ClausesOn(qy, field) == {i \in DOMAIN qy.filter : qy.filter[i].field = field}

\* C8: for each exact-match filter (organisation and the five multi-select
\* filters): a list of N items gives one "terms" clause holding exactly those
\* N values, the single-valued organisation gives one "term" clause with that
\* value, and an absent filter gives no clause on its field.
C8_OneClausePerFilter ==
    query_out # None =>
        LET qy == query_out[1]
        IN  /\ IF PresentStr(args.organisation)
               THEN \E i \in DOMAIN qy.filter :
                       /\ ClausesOn(qy, "organisation.keyword") = {i}
                       /\ qy.filter[i].op = "term"
                       /\ qy.filter[i].value = args.organisation[1]
               ELSE ClausesOn(qy, "organisation.keyword") = {}
            /\ \A f \in ListFilters :
                  IF PresentList(args[f])
                  THEN \E i \in DOMAIN qy.filter :
                          /\ ClausesOn(qy, FieldOf[f]) = {i}
                          /\ qy.filter[i].op = "terms"
                          /\ qy.filter[i].values = args[f][1]
                          /\ Len(qy.filter[i].values) = Len(args[f][1])
                  ELSE ClausesOn(qy, FieldOf[f]) = {}
            /\ Cardinality({i \in DOMAIN qy.filter : qy.filter[i].op \in {"term", "terms"}})
                  = SuppliedFilters(args) - (IF SalaryPresent(args) THEN 1 ELSE 0)

C8_Witness ==
    /\ query_out # None
    /\ args.organisation = Some("HMRC")
    /\ args.professions = Some(<<"Policy", "Digital">>)
    /\ args.grades = Some(<<"Grade 7">>)
    /\ args.assignments = None
    /\ args.work_locations = Some(<<>>)
    /\ Len(query_out[1].filter) = 3

----------------------------------------------------------------------------
(* Claims about opensearch_hit_to_job_result_item (SpecMapper) *)

\* the document the mapper reads
SourceOf(h) == IF h.source = None THEN EmptySource ELSE h.source[1]

\* a stored salary object whose minimum is not a number
BadSalaryObject(src) ==
    /\ src.salary.t = "dict"
    /\ "minimum" \in src.salary.keys
    /\ src.salary.minimum.t # "num"

\* a stored non-zero number where a list is expected
NonIterable(v) == v.t = "num" /\ v.n # 0

RaisingDocument(src) ==
    \/ BadSalaryObject(src)
    \/ NonIterable(src.workingPattern)
    \/ NonIterable(src.workLocation)

NonMemberStr(enum, v) == v.t = "str" /\ v.s \notin EnumValues[enum]

MembersOf(enum) == {Member(enum, value) : value \in EnumValues[enum]}

\* a list-valued enumeration field: a stored string is one element
StoredElements(v) ==
    IF v.t = "str" THEN <<v>> ELSE IF v.t = "list" THEN v.l ELSE <<>>

\* every unrecognised stored element maps to the fallback member
ElementsFallBack(enum, stored, mapped, fallback) ==
    \A i \in DOMAIN StoredElements(stored) :
        NonMemberStr(enum, StoredElements(stored)[i]) =>
            /\ i \in DOMAIN mapped
            /\ mapped[i] = fallback

\* the five fields whose unrecognised values map to a fixed member
FiveFieldsFallBack(src, item) ==
    /\ ElementsFallBack("WorkingPattern", src.workingPattern, item.working_pattern,
                        WorkingPattern_full_time)
    /\ ElementsFallBack("WorkLocation", src.workLocation, item.work_location,
                        WorkLocation_office_based)
    /\ NonMemberStr("Assignments", src.assignmentType) =>
          item.assignment_type = Assignments_permanent
    /\ NonMemberStr("Profession", src.profession) => item.profession = Profession_actuary
    /\ NonMemberStr("Approach", src.approach) => item.approach = Approach_internal

\* no unrecognised string of an enumeration field makes the mapper raise
NoErrorFromUnrecognised(src, outcome) ==
    outcome.raised => RaisingDocument(src)

\* C10 as stated: for each of the six closed-enumeration fields, grade among
\* them, an unrecognised stored value maps to a member of the enumeration,
\* never to the stored value and never to an error.
C10_EveryEnumFallsBack ==
    item_out # None =>
        /\ NoErrorFromUnrecognised(SourceOf(hit), item_out[1])
        /\ ~item_out[1].raised =>
              /\ FiveFieldsFallBack(SourceOf(hit), item_out[1].v)
              /\ NonMemberStr("Grade", SourceOf(hit).grade) =>
                    item_out[1].v.grade \in MembersOf("Grade")

\* C10 as amended: an unrecognised stored string of working pattern, work
\* location, assignment type, profession or approach maps to that field's
\* fixed fallback member and never to an error; an unrecognised grade is not
\* replaced by a member: the record keeps the stored string, or "Unknown"
\* when the stored string is empty.
C10_FiveFallBackGradeKept ==
    item_out # None =>
        /\ NoErrorFromUnrecognised(SourceOf(hit), item_out[1])
        /\ ~item_out[1].raised =>
              /\ FiveFieldsFallBack(SourceOf(hit), item_out[1].v)
              /\ NonMemberStr("Grade", SourceOf(hit).grade) =>
                    item_out[1].v.grade =
                        IF SourceOf(hit).grade.s = "" THEN Str("Unknown")
                        ELSE SourceOf(hit).grade

C10_Witness ==
    /\ item_out # None
    /\ ~item_out[1].raised
    /\ hit.source # None
    /\ hit.source[1].grade = Str("Grade 99")
    /\ hit.source[1].profession = Str("Wizard")
    /\ item_out[1].v.grade = Str("Grade 99")
    /\ item_out[1].v.profession = Profession_actuary

\* every field in which the document differs from the well-formed one is absent
OnlyMissingFields(src) ==
    \A f \in DOMAIN Baseline : src[f] = Baseline[f] \/ src[f] = Missing

\* C11: a document missing an optional field maps to that field's default and
\* mapping does not raise: working pattern [Full-time], work location
\* [Office based], assignment type Permanent, approach Internal, closing date
\* (missing or unparsable) 2099-12-31, salary minimum 0 GBP, location one
\* placeholder point, externalId the document's id.
C11_MissingFieldsGetDefaults ==
    item_out # None =>
        LET src == SourceOf(hit)
            out == item_out[1]
        IN  /\ OnlyMissingFields(src) => ~out.raised
            /\ ~out.raised =>
                  /\ src.workingPattern = Missing =>
                        out.v.working_pattern = <<Member("WorkingPattern", "Full-time")>>
                  /\ src.workLocation = Missing =>
                        out.v.work_location = <<Member("WorkLocation", "Office based")>>
                  /\ src.assignmentType = Missing =>
                        out.v.assignment_type = Member("Assignments", "Permanent")
                  /\ src.approach = Missing =>
                        out.v.approach = Member("Approach", "Internal")
                  /\ (src.closingDate = Missing \/ src.closingDate = Str("20 December 2025")) =>
                        out.v.closing_date = [year |-> 2099, month |-> 12, day |-> 31]
                  /\ src.salary = Missing =>
                        /\ out.v.salary.minimum = 0
                        /\ out.v.salary.currency = "GBP"
                  /\ src.location = Missing =>
                        /\ Len(out.v.location) = 1
                        /\ out.v.location[1].town_name = "Unknown"
                        /\ out.v.location[1].region = "Unknown"
                        /\ out.v.location[1].latitude = 0
                        /\ out.v.location[1].longitude = 0
                  /\ src.externalId = Missing =>
                        out.v.external_id = IF src.id = Missing THEN Str("") ELSE src.id

C11_Witness ==
    /\ item_out # None
    /\ ~item_out[1].raised
    /\ hit.source # None
    /\ hit.source[1].workingPattern = Missing
    /\ hit.source[1].externalId = Missing
    /\ item_out[1].v.working_pattern = <<WorkingPattern_full_time>>
    /\ item_out[1].v.external_id = Str("job-1")

\* the town name an element of a stored location list maps to
TownOf(loc) == IF loc.t = "dict" THEN loc.town_name ELSE IF loc.t = "str" THEN loc.s ELSE "?"

\* C12: a location stored as a bare string maps to one location with that
\* town name, region "Unknown" and coordinates 0; a non-empty stored list maps
\* to a list of the same length in the same order, unless an element fails to
\* parse: then the whole list collapses to one placeholder built from the
\* first element.
C12_LocationNormalised ==
    (item_out # None /\ ~item_out[1].raised) =>
        LET stored == SourceOf(hit).location
            mapped == item_out[1].v.location
        IN  /\ stored.t = "str" =>
                  mapped = <<[town_name |-> stored.s, region |-> "Unknown",
                              latitude |-> 0, longitude |-> 0]>>
            /\ (stored.t = "list" /\ Len(stored.l) > 0) =>
                  IF \A i \in DOMAIN stored.l : stored.l[i].t = "dict" => stored.l[i].valid
                  THEN /\ Len(mapped) = Len(stored.l)
                       /\ \A i \in DOMAIN stored.l :
                             mapped[i].town_name = TownOf(stored.l[i])
                  ELSE /\ Len(mapped) = 1
                       /\ mapped[1].region = "Unknown"
                       /\ mapped[1].latitude = 0
                       /\ mapped[1].longitude = 0
                       /\ stored.l[1].t = "str" => mapped[1].town_name = stored.l[1].s

C12_Witness ==
    /\ item_out # None
    /\ ~item_out[1].raised
    /\ hit.source # None
    /\ hit.source[1].location =
          List(<<Str("Leeds"), LocDict("York", "Yorkshire", 54, -1, FALSE)>>)
    /\ item_out[1].v.location = <<PlaceholderLocation("Leeds")>>

----------------------------------------------------------------------------
(* Claims about failures behind GET /jobs (Spec) *)

\* the hits of the engine's answer that map without raising, in its order
MappableHits(hits) ==
    SelectSeq(hits, LAMBDA h : ~opensearch_hit_to_job_result_item(h).raised)

\* C13: when mapping raises for some of the returned hits the response is
\* still successful; results holds exactly the mapped records of the other
\* hits in the engine's order, and total and totalPages come from the
\* engine's match count, not from the number of records returned.
C13_FailedHitsSkipped ==
    (reply # None /\ ~reply[1].raised) =>
        /\ Ok200
        /\ LET hits == reply[1].hits
               good == MappableHits(hits)
               out  == response[1]
           IN  /\ Len(out.results) = Len(good)
               /\ \A i \in DOMAIN good :
                     out.results[i] = opensearch_hit_to_job_result_item(good[i]).v
               /\ out.total = reply[1].total.value
               /\ out.totalPages =
                     (IF out.total = 0 THEN 0
                      ELSE (out.total + out.pageSize - 1) \div out.pageSize)

C13_Witness ==
    /\ Ok200
    /\ Len(reply[1].hits) = 3
    /\ opensearch_hit_to_job_result_item(reply[1].hits[1]).raised
    /\ Len(response[1].results) = 2
    /\ response[1].results[1].id = Str("2")
    /\ response[1].results[2].id = Str("3")
    /\ response[1].total = 6

\* C14: when the engine is unreachable or the search call raises, GET /jobs
\* answers HTTP 500 whose detail contains the underlying error message, and
\* the answer carries no results and no pagination metadata.
C14_SearchFailureIs500 ==
    (reply # None /\ reply[1].raised) =>
        /\ response # None
        /\ response[1].status = 500
        /\ \E i \in DOMAIN response[1].detail : response[1].detail[i] = reply[1].error
        /\ DOMAIN response[1] \cap
              {"results", "total", "page", "pageSize", "totalPages"} = {}

C14_Witness ==
    /\ reply # None
    /\ reply[1].raised
    /\ reply[1].error = "NotFoundError(404, 'index_not_found_exception')"
    /\ response # None
    /\ response[1].status = 500
    /\ request.args # NoArgs

\* the HTTP name of each filter parameter search_jobs declares
FilterNameOf ==
    [organisation |-> "organisation", professions |-> "professions",
     grades |-> "grades", assignments |-> "assignments",
     working_patterns |-> "workingPatterns", work_locations |-> "workLocations",
     salary_min |-> "salaryMin", salary_max |-> "salaryMax"]

\* the names of the filter parameters the caller sent
SentFilterNames(req) ==
    {FilterNameOf[f] : f \in {g \in DOMAIN FilterNameOf : ~IsNone(req.args[g])}}
        \cup req.unbound

\* the names appliedFilters carries
EchoedFilterNames(resp) ==
    {resp.appliedFilters[i].name : i \in DOMAIN resp.appliedFilters}

\* C20: appliedFilters echoes every filter the caller supplied: the name of
\* each filter parameter sent (a single-value grade filter sent together with
\* organisation included) appears in it, and no filter that was not sent does.
C20_AppliedFiltersEchoSent ==
    Ok200 => EchoedFilterNames(response[1]) = SentFilterNames(request)

----------------------------------------------------------------------------
(* Claims about the application (SpecApp) *)

\* the last request served was this method on this path
Served(method, path) ==
    http # None /\ http[1].method = method /\ http[1].path = path

\* the identifiers of the documents the jobs index holds
StoredIds == {ToString(i) : i \in 1..engine.docs}

\* C15: GET /jobs/{id} answers 404 for an identifier with no matching
\* document, and 200 with the record whose id is the requested identifier for
\* an identifier with a matching document.
C15_GetJobById ==
    \A id \in RequestIds :
        (Served("GET", <<"jobs", id>>) /\ http[1].reachable /\ engine.index_exists) =>
            IF id \in StoredIds
            THEN /\ http[1].response.status = 200
                 /\ http[1].response.id = id
            ELSE http[1].response.status = 404

\* C16: POST /jobs with a valid payload that carries no id answers 201 with
\* the created record, which has a fresh id; a GET /jobs/{id} for that id
\* right afterwards returns the record.
C16_CreateJobAnswers201 ==
    Served("POST", <<"jobs">>) =>
        /\ http[1].response.status = 201
        /\ "id" \in DOMAIN http[1].response

\* C17: GET /health always answers 200: status is "healthy" exactly when the
\* connectivity check succeeded and "degraded" otherwise, and
\* opensearch_connected is the result of that check.
C17_HealthReportsConnectivity ==
    Served("GET", <<"health">>) =>
        /\ http[1].response.status = 200
        /\ http[1].response.body.status =
              (IF http[1].reachable THEN "healthy" ELSE "degraded")
        /\ http[1].response.body.opensearch_connected = http[1].reachable

C17_Witness ==
    /\ Served("GET", <<"health">>)
    /\ ~http[1].reachable
    /\ http[1].response.status = 200
    /\ http[1].response.body.status = "degraded"

\* C18: startup always completes and the process begins serving, whether the
\* engine is reachable, unreachable, or fails during the index existence
\* check or the index creation.
C18_StartupAlwaysCompletes ==
    \A p \in Procs :
        /\ proc[p].pc \in {"boot", "exists", "create", "serving", "stopped"}
        /\ proc[p].startup \in {"unavailable", "failed", "ready"} =>
              proc[p].pc \in {"serving", "stopped"}

C18_Witness ==
    \E p \in Procs :
        /\ proc[p].startup = "failed"
        /\ proc[p].pc = "serving"
        /\ ~engine.index_exists

\* C19: when the engine was not available at startup, initialisation is
\* retried on the first request: the first request handled once the engine
\* is reachable ensures that the jobs index exists, creating it with the
\* mapping when it is absent.
C19_IndexEnsuredOnFirstRequest ==
    (Served("GET", <<"jobs">>) /\ http[1].reachable) => engine.index_exists

----------------------------------------------------------------------------
(* Claims about the echo of the request (Spec) and the salary range (SpecQuery) *)

\* C21: every successful GET /jobs response echoes the request: page is the
\* requested page (1 when omitted), pageSize the requested page size (the
\* configured default when omitted), and query the supplied free-text string.
C21_ResponseEchoesRequest ==
    Ok200 =>
        /\ response[1].page = request.page
        /\ response[1].pageSize =
              (IF request.page_size = None THEN settings.default_page_size
               ELSE request.page_size[1])
        /\ request.args.q # None => response[1].query = request.args.q[1]
        /\ request.args.q = None => response[1].query = ""

C21_Witness ==
    /\ Ok200
    /\ request.page = 2
    /\ request.page_size = Some(20)
    /\ request.args.q = Some("policy")
    /\ response[1].page = 2
    /\ response[1].pageSize = 20
    /\ response[1].query = "policy"

\* the range clauses among the filter clauses of a query
RangeClausesOf(qy) == {i \in DOMAIN qy.filter : qy.filter[i].op = "range"}

\* C25: when a salary minimum and/or maximum is supplied (the value 0
\* included), build_search_query adds exactly one range filter clause on the
\* stored salary minimum, with gte = salary_min when salary_min is given and
\* lte = salary_max when salary_max is given; it adds no range clause when
\* neither is given.
C25_OneSalaryRangeClause ==
    query_out # None =>
        LET qy == query_out[1]
        IN  IF args.salary_min # None \/ args.salary_max # None
            THEN /\ Cardinality(RangeClausesOf(qy)) = 1
                 /\ \A i \in RangeClausesOf(qy) :
                       /\ qy.filter[i].field = "salary.minimum"
                       /\ qy.filter[i].gte = args.salary_min
                       /\ qy.filter[i].lte = args.salary_max
                 /\ \A i \in DOMAIN qy.must : qy.must[i].op # "range"
            ELSE /\ RangeClausesOf(qy) = {}
                 /\ \A i \in DOMAIN qy.must : qy.must[i].op # "range"

C25_Witness ==
    /\ query_out # None
    /\ args.salary_min = Some(0)
    /\ args.salary_max = None
    /\ args.q = None
    /\ query_out[1].kind = "bool"
    /\ \E i \in DOMAIN query_out[1].filter :
          /\ query_out[1].filter[i].op = "range"
          /\ query_out[1].filter[i].gte = Some(0)
          /\ query_out[1].filter[i].lte = None

----------------------------------------------------------------------------
(* Claims about the client handle (SpecClient) and the engine calls (SpecApp) *)

\* the clients a process constructed and has not closed
LiveClients(pr) == (1..pr.made) \ pr.closed

\* C22: over any sequence of get_opensearch_client, close_client and
\* request-handling calls at most one client is live at a time: a client is
\* created only when none is held, every call between a creation and the
\* next close returns that same client, close_client closes it and clears the
\* handle, and get_opensearch_client never returns a closed client.
C22_SingleClientHandle ==
    \A p \in Procs :
        LET pr == proc[p]
        IN  /\ Cardinality(LiveClients(pr)) <= 1
            /\ LiveClients(pr) = (IF pr.client = 0 THEN {} ELSE {pr.client})
            /\ pr.client # 0 => (pr.got = pr.client /\ pr.got \notin pr.closed)
            /\ pr.pc = "stopped" => pr.client = 0

C22_Witness ==
    /\ proc[Interpreter].made = 2
    /\ proc[Interpreter].closed = {1}
    /\ proc[Interpreter].client = 2
    /\ proc[Interpreter].got = 2
    /\ proc[Interpreter].pc = "serving"
    /\ http # None
    /\ http[1].calls = <<"search">>

\* C24: each GET /jobs request issues exactly one search call to the engine
\* and no write (index or index-creation) call; when that call fails the
\* request is answered with an error at once, without a second attempt.
C24_OneSearchCallNoRetry ==
    Served("GET", <<"jobs">>) =>
        /\ http[1].calls = <<"search">>
        /\ http[1].response.status \in {200, 500}
        /\ (~http[1].reachable \/ ~engine.index_exists) => http[1].response.status = 500

C24_Witness ==
    /\ Served("GET", <<"jobs">>)
    /\ http[1].reachable
    /\ ~engine.index_exists
    /\ http[1].response.status = 500
    /\ http[1].calls = <<"search">>

\* the engine has been reachable ever since the processes started
ReachableThroughout == flips = 0 /\ engine.reachable

\* the processes whose ensure_index_exists returned True
Returned == {p \in Procs : proc[p].ensured \in {"exists", "created", "raced"}}

\* C23: when several processes run ensure_index_exists concurrently against
\* the same reachable engine, the index is created exactly once, every caller
\* returns True (the caller that loses the check-then-create race and gets a
\* resource-already-exists error too), the index exists after any caller has
\* returned True, and an index that exists is never created again.
C23_ConcurrentEnsureCreatesOnce ==
    /\ engine.creations <= 1
    /\ Cardinality({p \in Procs : proc[p].ensured = "created"}) = engine.creations
    /\ engine.docs > 0 => engine.creations = 0
    /\ Returned # {} => engine.index_exists
    /\ ReachableThroughout =>
          /\ \A p \in Procs : proc[p].ensured # "raised" /\ proc[p].startup # "failed"
          /\ (\E p \in Procs : proc[p].ensured = "raced") => engine.creations = 1

C23_Witness ==
    /\ ReachableThroughout
    /\ \E p, q \in Procs :
          /\ proc[p].ensured = "created"
          /\ proc[q].ensured = "raced"
          /\ proc[q].startup = "ready"
    /\ engine.creations = 1

====
